---- MODULE Spec2Model ----
(***************************************************************************)
(* A model of the Standard MIDI File decoder of midi-rs (src/parse.rs,     *)
(* src/bits.rs).  A byte is a number in 0..255.  The reader behind         *)
(* parse_header and parse_track is the pair (file, pos); the slice `cur`   *)
(* of parse_track is the suffix of track_buf that starts after `cur`       *)
(* bytes, so cur.len() is Len(track_buf) - cur.                            *)
(*                                                                         *)
(* An std::io::Error is modelled by the name the specification gives to    *)
(* the error that the code builds at that place:                           *)
(*   read_exact / extract_byte at the end ....... UnexpectedEndOfStream    *)
(*   "... header bytes missing" .................. MalformedHeaderMarker   *)
(*   "... header chunk size different ..." ....... UnexpectedHeaderSize    *)
(*   "... file format number is invalid" ......... InvalidFileFormat       *)
(*   "... track header bytes missing" ............ MalformedTrackMarker    *)
(*   "VLQ too long" .............................. VlqTooLong              *)
(*   "length vlq higher ... in sysex event!" ..... SysexLengthExceedsAvailable *)
(*   "length vlq higher ... in meta event!" ...... MetaLengthExceedsAvailable  *)
(*   "EndOfTrack meta event must have length 0" .. InvalidEndOfTrackLength *)
(*   "SetTempo meta event must have length 3" .... InvalidSetTempoLength   *)
(*   "Invalid meta event tag" .................... InvalidMetaEventTag     *)
(*   "somehow running status is none ..." ........ DataByteWithoutRunningStatus *)
(***************************************************************************)
EXTENDS Integers, Sequences, FiniteSets, TLC

VARIABLES
    file,            \* the bytes of the file behind the BufReader
    pos,             \* number of bytes the reader has consumed
    pc,              \* "header" | "track" | "loop" | "delta" | "event" | "done" | "error" | "panic"
    header,          \* <<>> or <<HeaderData>>: the value parse_header returned
    track_buf,       \* parse_track: the chunk body
    cur,             \* parse_track: number of bytes of track_buf already consumed
    running_status,  \* parse_track: <<>> is None, <<s>> is Some(s)
    events,          \* parse_track: the local Vec<Event>
    delta_time,      \* parse_track: the delta-time of the iteration in progress
    result           \* <<>> while parse runs; <<"Ok", HeaderData, events>> or <<"Err", e>>

vars == <<file, pos, pc, header, track_buf, cur, running_status, events, delta_time, result>>

(***************************************************************************)
(* Program constants                                                       *)
(***************************************************************************)
HEADER_MARKER == 1297377380      \* 0x4d546864
TRACK_MARKER == 1297379947       \* 0x4d54726b
EXPECTED_INFO_SIZE_BYTES == 6
NOTE_OFF_STATUS == 8
NOTE_ON_STATUS == 9
PROGRAM_CHANGE_STATUS == 12
CHANNEL_PRESSURE_STATUS == 13
SYSTEM_MESSAGE_STATUS == 15

(***************************************************************************)
(* bits.rs                                                                 *)
(***************************************************************************)
msb(target) == target \div 16

lsb(target) == target % 16

msb_set(target) == (target \div 128) = 1

(***************************************************************************)
(* Big-endian integers.  The inputs of the model keep the first byte of a  *)
(* 32-bit field below 0x80, so the value stays inside TLC's integers.      *)
(***************************************************************************)
u16_from_be_bytes(b) == b[1] * 256 + b[2]

u32_from_be_bytes(b) == ((b[1] * 256 + b[2]) * 256 + b[3]) * 256 + b[4]

(***************************************************************************)
(* Read::read_exact on the reader (f, p): n bytes or UnexpectedEof.  On    *)
(* a short read the reader has been drained.                               *)
(***************************************************************************)
read_exact(f, p, n) ==
    IF Len(f) - p >= n
    THEN [ok |-> TRUE, buf |-> SubSeq(f, p + 1, p + n), pos |-> p + n]
    ELSE [ok |-> FALSE, buf |-> <<>>, pos |-> Len(f)]

(***************************************************************************)
(* parse_header                                                            *)
(***************************************************************************)
HeaderErr(e, p) == [ok |-> FALSE, err |-> e, pos |-> p, data |-> <<>>]

FileFormat(code) ==
    CASE code = 0 -> "SingleTrack"
      [] code = 1 -> "MultipleTrack"
      [] code = 2 -> "MultipleSong"
      [] OTHER -> "invalid"

\* Mutant: num_tracks and division read from each other's bytes.
header_fields_swapped(data_buf) ==
    [format |-> FileFormat(u16_from_be_bytes(SubSeq(data_buf, 1, 2))),
     num_tracks |-> u16_from_be_bytes(SubSeq(data_buf, 5, 6)),
     division |-> u16_from_be_bytes(SubSeq(data_buf, 3, 4))]

\* The three fields of the 6 payload bytes.
header_fields(data_buf) ==
    [format |-> FileFormat(u16_from_be_bytes(SubSeq(data_buf, 1, 2))),
     num_tracks |-> u16_from_be_bytes(SubSeq(data_buf, 3, 4)),
     division |-> u16_from_be_bytes(SubSeq(data_buf, 5, 6))]

\* Mutant: the length field is validated before the marker.
parse_header_size_first(f, p) ==
    LET marker_buf == read_exact(f, p, 4) IN
    IF ~marker_buf.ok THEN HeaderErr("UnexpectedEndOfStream", marker_buf.pos)
    ELSE
    LET length_buf == read_exact(f, marker_buf.pos, 4) IN
    IF ~length_buf.ok THEN HeaderErr("UnexpectedEndOfStream", length_buf.pos)
    ELSE IF u32_from_be_bytes(length_buf.buf) # EXPECTED_INFO_SIZE_BYTES
    THEN HeaderErr("UnexpectedHeaderSize", length_buf.pos)
    ELSE IF u32_from_be_bytes(marker_buf.buf) # HEADER_MARKER
    THEN HeaderErr("MalformedHeaderMarker", marker_buf.pos)
    ELSE
    LET data_buf == read_exact(f, length_buf.pos, EXPECTED_INFO_SIZE_BYTES) IN
    IF ~data_buf.ok THEN HeaderErr("UnexpectedEndOfStream", data_buf.pos)
    ELSE
    LET data == header_fields(data_buf.buf) IN
    IF data.format = "invalid" THEN HeaderErr("InvalidFileFormat", data_buf.pos)
    ELSE [ok |-> TRUE, err |-> "", pos |-> data_buf.pos, data |-> <<data>>]

parse_header(f, p) ==
    LET marker_buf == read_exact(f, p, 4) IN
    IF ~marker_buf.ok THEN HeaderErr("UnexpectedEndOfStream", marker_buf.pos)
    ELSE IF u32_from_be_bytes(marker_buf.buf) # HEADER_MARKER
    THEN HeaderErr("MalformedHeaderMarker", marker_buf.pos)
    ELSE
    LET length_buf == read_exact(f, marker_buf.pos, 4) IN
    IF ~length_buf.ok THEN HeaderErr("UnexpectedEndOfStream", length_buf.pos)
    ELSE IF u32_from_be_bytes(length_buf.buf) # EXPECTED_INFO_SIZE_BYTES
    THEN HeaderErr("UnexpectedHeaderSize", length_buf.pos)
    ELSE
    LET data_buf == read_exact(f, length_buf.pos, EXPECTED_INFO_SIZE_BYTES) IN
    IF ~data_buf.ok THEN HeaderErr("UnexpectedEndOfStream", data_buf.pos)
    ELSE
    LET data == header_fields(data_buf.buf) IN
    IF data.format = "invalid" THEN HeaderErr("InvalidFileFormat", data_buf.pos)
    ELSE [ok |-> TRUE, err |-> "", pos |-> data_buf.pos, data |-> <<data>>]

(***************************************************************************)
(* parse_track, up to the loop: marker, length, body                       *)
(***************************************************************************)
TrackErr(e, p) == [ok |-> FALSE, err |-> e, pos |-> p, buf |-> <<>>]

\* Mutant: a short read is accepted (read in place of read_exact).
read_body_short(f, p, length) ==
    IF Len(f) - p >= length THEN read_exact(f, p, length)
    ELSE read_exact(f, p, Len(f) - p)

\* Mutant: the body takes every byte that is left in the file.
read_body_to_end(f, p, length) ==
    IF Len(f) - p >= length THEN read_exact(f, p, Len(f) - p)
    ELSE read_exact(f, p, length)

\* vec![0u8; length] and reader.read_exact(&mut track_buf)
read_body(f, p, length) == read_exact(f, p, length)

read_track(f, p) ==
    LET marker_buf == read_exact(f, p, 4) IN
    IF ~marker_buf.ok THEN TrackErr("UnexpectedEndOfStream", marker_buf.pos)
    ELSE IF u32_from_be_bytes(marker_buf.buf) # TRACK_MARKER
    THEN TrackErr("MalformedTrackMarker", marker_buf.pos)
    ELSE
    LET length_buf == read_exact(f, marker_buf.pos, 4) IN
    IF ~length_buf.ok THEN TrackErr("UnexpectedEndOfStream", length_buf.pos)
    ELSE
    LET length == u32_from_be_bytes(length_buf.buf)
        body == read_body(f, length_buf.pos, length)
    IN  IF ~body.ok THEN TrackErr("UnexpectedEndOfStream", body.pos)
        ELSE [ok |-> TRUE, err |-> "", pos |-> body.pos, buf |-> body.buf]

\* Mutant: the slice is not advanced past the byte that is returned.
extract_byte_stuck(buf, c) ==
    IF c < Len(buf)
    THEN [ok |-> TRUE, v |-> buf[c + 1], cur |-> c, err |-> ""]
    ELSE [ok |-> FALSE, v |-> 0, cur |-> c, err |-> "UnexpectedEndOfStream"]

\* Mutant: at the end of the slice a zero byte is returned (`unwrap_or(&0)`).
extract_byte_zero_at_end(buf, c) ==
    IF c < Len(buf)
    THEN [ok |-> TRUE, v |-> buf[c + 1], cur |-> c + 1, err |-> ""]
    ELSE [ok |-> TRUE, v |-> 0, cur |-> c, err |-> ""]

(***************************************************************************)
(* extract_byte: the byte at the cursor and the cursor moved by one, or    *)
(* UnexpectedEof with the cursor where it was.                             *)
(***************************************************************************)
extract_byte(buf, c) ==
    IF c < Len(buf)
    THEN [ok |-> TRUE, v |-> buf[c + 1], cur |-> c + 1, err |-> ""]
    ELSE [ok |-> FALSE, v |-> 0, cur |-> c, err |-> "UnexpectedEndOfStream"]

(***************************************************************************)
(* extract_vlq: iteration i of `for i in 0..4` with accumulator vlq.  The  *)
(* accumulator holds at most 21 bits before the last shift, so the u32     *)
(* shift never loses a bit.                                                *)
(***************************************************************************)
\* Mutant: the accumulator is shifted by 8 bits.
RECURSIVE vlq_loop_shift8(_, _, _, _)
vlq_loop_shift8(buf, c, i, vlq) ==
    LET b == extract_byte(buf, c) IN
    IF ~b.ok THEN [ok |-> FALSE, v |-> 0, cur |-> b.cur, err |-> b.err]
    ELSE
    LET acc == vlq * 256 + (b.v % 128) IN
    IF ~msb_set(b.v) THEN [ok |-> TRUE, v |-> acc, cur |-> b.cur, err |-> ""]
    ELSE IF i = 3 THEN [ok |-> FALSE, v |-> 0, cur |-> b.cur, err |-> "VlqTooLong"]
    ELSE vlq_loop_shift8(buf, b.cur, i + 1, acc)

\* Mutant: the loop runs five times (`0..5`, `i == 4`).
RECURSIVE vlq_loop_five(_, _, _, _)
vlq_loop_five(buf, c, i, vlq) ==
    LET b == extract_byte(buf, c) IN
    IF ~b.ok THEN [ok |-> FALSE, v |-> 0, cur |-> b.cur, err |-> b.err]
    ELSE
    LET acc == vlq * 128 + (b.v % 128) IN
    IF ~msb_set(b.v) THEN [ok |-> TRUE, v |-> acc, cur |-> b.cur, err |-> ""]
    ELSE IF i = 4 THEN [ok |-> FALSE, v |-> 0, cur |-> b.cur, err |-> "VlqTooLong"]
    ELSE vlq_loop_five(buf, b.cur, i + 1, acc)

RECURSIVE vlq_loop(_, _, _, _)
vlq_loop(buf, c, i, vlq) ==
    LET b == extract_byte(buf, c) IN
    IF ~b.ok THEN [ok |-> FALSE, v |-> 0, cur |-> b.cur, err |-> b.err]
    ELSE
    LET acc == vlq * 128 + (b.v % 128) IN
    IF ~msb_set(b.v) THEN [ok |-> TRUE, v |-> acc, cur |-> b.cur, err |-> ""]
    ELSE IF i = 3 THEN [ok |-> FALSE, v |-> 0, cur |-> b.cur, err |-> "VlqTooLong"]
    ELSE vlq_loop(buf, b.cur, i + 1, acc)

extract_vlq(buf, c) == vlq_loop(buf, c, 0, 0)

(***************************************************************************)
(* Event values.  EventType::Sysex, EventType::Meta(_), EventType::Midi(_) *)
(***************************************************************************)
Sysex == [kind |-> "Sysex"]

Meta(m) == [kind |-> "Meta", ev |-> m]

Midi(m) == [kind |-> "Midi", ev |-> m]

Unimplemented == [tag |-> "Unimplemented"]

EndOfTrack == [tag |-> "EndOfTrack"]

SetTempo(t) == [tag |-> "SetTempo", tempo |-> t]

NoteOn(n, v, ch) == [tag |-> "NoteOn", note |-> n, velocity |-> v, channel |-> ch]

NoteOff(n, v, ch) == [tag |-> "NoteOff", note |-> n, velocity |-> v, channel |-> ch]

\* The result of decoding one event: the cursor and the running status as the
\* call leaves them, and the event or the error.
EvOk(ty, c, rs) == [ok |-> TRUE, ty |-> ty, cur |-> c, rs |-> rs, err |-> ""]

EvErr(e, c, rs) == [ok |-> FALSE, ty |-> Sysex, cur |-> c, rs |-> rs, err |-> e]

(***************************************************************************)
(* extract_meta                                                            *)
(***************************************************************************)
\* Mutant: the length of an end-of-track event is not validated.
end_of_track_arm_any_len(len, at, rs) == EvOk(Meta(EndOfTrack), at + len, rs)

\* The 0x2f arm, then the skip of the payload.
end_of_track_arm(len, at, rs) ==
    IF len # 0 THEN EvErr("InvalidEndOfTrackLength", at, rs)
    ELSE EvOk(Meta(EndOfTrack), at + len, rs)

\* Mutant: the tempo is assembled little-endian.
set_tempo_arm_le(len, buf, at, rs) ==
    IF len # 3 THEN EvErr("InvalidSetTempoLength", at, rs)
    ELSE EvOk(Meta(SetTempo(u32_from_be_bytes(
                   <<0, buf[at + 3], buf[at + 2], buf[at + 1]>>))),
              at + len, rs)

\* The 0x51 arm, then the skip of the payload.
set_tempo_arm(len, buf, at, rs) ==
    IF len # 3 THEN EvErr("InvalidSetTempoLength", at, rs)
    ELSE EvOk(Meta(SetTempo(u32_from_be_bytes(
                   <<0, buf[at + 1], buf[at + 2], buf[at + 3]>>))),
              at + len, rs)

\* Mutant: an unknown type is rejected before the remaining bytes are checked.
extract_meta_type_first(rs, buf, c) ==
    LET event_type == extract_byte(buf, c) IN
    IF ~event_type.ok THEN EvErr(event_type.err, event_type.cur, rs)
    ELSE
    LET len == extract_vlq(buf, event_type.cur) IN
    IF ~len.ok THEN EvErr(len.err, len.cur, rs)
    ELSE IF event_type.v \notin (1..7) \cup {47, 81, 84, 88, 89, 127}
    THEN EvErr("InvalidMetaEventTag", len.cur, rs)
    ELSE IF Len(buf) - len.cur < len.v
    THEN EvErr("MetaLengthExceedsAvailable", len.cur, rs)
    ELSE IF event_type.v = 47 THEN end_of_track_arm(len.v, len.cur, rs)
    ELSE IF event_type.v = 81 THEN set_tempo_arm(len.v, buf, len.cur, rs)
    ELSE EvOk(Meta(Unimplemented), len.cur + len.v, rs)

extract_meta(rs, buf, c) ==
    LET event_type == extract_byte(buf, c) IN
    IF ~event_type.ok THEN EvErr(event_type.err, event_type.cur, rs)
    ELSE
    LET len == extract_vlq(buf, event_type.cur) IN
    IF ~len.ok THEN EvErr(len.err, len.cur, rs)
    ELSE IF Len(buf) - len.cur < len.v
    THEN EvErr("MetaLengthExceedsAvailable", len.cur, rs)
    ELSE
    LET ty == event_type.v
        at == len.cur
    IN  IF ty = 47 \* 0x2f
        THEN end_of_track_arm(len.v, at, rs)
        ELSE IF ty = 81 \* 0x51
        THEN set_tempo_arm(len.v, buf, at, rs)
        ELSE IF ty \in (1..7) \cup {84, 88, 89, 127} \* 0x01..=0x07 | 0x54 | 0x58 | 0x59 | 0x7f
        THEN EvOk(Meta(Unimplemented), at + len.v, rs)
        ELSE EvErr("InvalidMetaEventTag", at, rs)

(***************************************************************************)
(* extract_midi                                                            *)
(***************************************************************************)
\* n times `extract_byte(bytes)?;`
RECURSIVE skip_bytes(_, _, _)
skip_bytes(buf, c, n) ==
    IF n = 0 THEN [ok |-> TRUE, v |-> 0, cur |-> c, err |-> ""]
    ELSE LET b == extract_byte(buf, c) IN
         IF ~b.ok THEN b ELSE skip_bytes(buf, b.cur, n - 1)

\* The NOTE_OFF_STATUS and NOTE_ON_STATUS arms: note, velocity, channel.
note_event(on, first_byte, buf, c, rs) ==
    LET note == extract_byte(buf, c) IN
    IF ~note.ok THEN EvErr(note.err, note.cur, rs)
    ELSE
    LET velocity == extract_byte(buf, note.cur) IN
    IF ~velocity.ok THEN EvErr(velocity.err, velocity.cur, rs)
    ELSE IF on
    THEN EvOk(Midi(NoteOn(note.v, velocity.v, lsb(first_byte))), velocity.cur, rs)
    ELSE EvOk(Midi(NoteOff(note.v, velocity.v, lsb(first_byte))), velocity.cur, rs)

\* An arm that only skips n bytes and yields Midi(Unimplemented).
skip_event(buf, c, n, rs) ==
    LET s == skip_bytes(buf, c, n) IN
    IF ~s.ok THEN EvErr(s.err, s.cur, rs) ELSE EvOk(Midi(Unimplemented), s.cur, rs)

\* Mutant: the arms that skip data bytes do not look at using_running_status.
midi_dispatch_fixed_skip(status, using_running_status, first_byte, buf, c, rs) ==
    IF msb(status) = NOTE_OFF_STATUS THEN note_event(FALSE, first_byte, buf, c, rs)
    ELSE IF msb(status) = NOTE_ON_STATUS THEN note_event(TRUE, first_byte, buf, c, rs)
    ELSE IF msb(status) = SYSTEM_MESSAGE_STATUS
    THEN IF lsb(status) = 0 THEN EvErr("unreachable", c, rs)
         ELSE IF lsb(status) = 2 THEN skip_event(buf, c, 2, rs)
         ELSE IF lsb(status) = 3 THEN skip_event(buf, c, 1, rs)
         ELSE skip_event(buf, c, 0, rs)
    ELSE IF msb(status) \in {PROGRAM_CHANGE_STATUS, CHANNEL_PRESSURE_STATUS}
    THEN skip_event(buf, c, 1, rs)
    ELSE skip_event(buf, c, 2, rs)

\* Mutant: the system-message arm skips one byte fewer under running status.
midi_dispatch_system_reused(status, using_running_status, first_byte, buf, c, rs) ==
    LET less == IF using_running_status THEN 1 ELSE 0 IN
    IF msb(status) = NOTE_OFF_STATUS THEN note_event(FALSE, first_byte, buf, c, rs)
    ELSE IF msb(status) = NOTE_ON_STATUS THEN note_event(TRUE, first_byte, buf, c, rs)
    ELSE IF msb(status) = SYSTEM_MESSAGE_STATUS
    THEN IF lsb(status) = 0 THEN EvErr("unreachable", c, rs)
         ELSE IF lsb(status) = 2 THEN skip_event(buf, c, 2 - less, rs)
         ELSE IF lsb(status) = 3 THEN skip_event(buf, c, 1 - less, rs)
         ELSE skip_event(buf, c, 0, rs)
    ELSE IF msb(status) \in {PROGRAM_CHANGE_STATUS, CHANNEL_PRESSURE_STATUS}
    THEN skip_event(buf, c, IF using_running_status THEN 0 ELSE 1, rs)
    ELSE skip_event(buf, c, IF using_running_status THEN 1 ELSE 2, rs)

\* match bits::msb(status) { ... }
midi_dispatch(status, using_running_status, first_byte, buf, c, rs) ==
    IF msb(status) = NOTE_OFF_STATUS THEN note_event(FALSE, first_byte, buf, c, rs)
    ELSE IF msb(status) = NOTE_ON_STATUS THEN note_event(TRUE, first_byte, buf, c, rs)
    ELSE IF msb(status) = SYSTEM_MESSAGE_STATUS
    THEN IF lsb(status) = 0 THEN EvErr("unreachable", c, rs)
         ELSE IF lsb(status) = 2 THEN skip_event(buf, c, 2, rs)
         ELSE IF lsb(status) = 3 THEN skip_event(buf, c, 1, rs)
         ELSE skip_event(buf, c, 0, rs)
    ELSE IF msb(status) \in {PROGRAM_CHANGE_STATUS, CHANNEL_PRESSURE_STATUS}
    THEN skip_event(buf, c, IF using_running_status THEN 0 ELSE 1, rs)
    ELSE skip_event(buf, c, IF using_running_status THEN 1 ELSE 2, rs)

\* Mutant: without a running status the data byte itself is taken as the
\* status (`running_status.unwrap_or(first_byte)`).
extract_midi_unchecked(running_status0, first_byte, buf, c) ==
    LET fresh == msb_set(first_byte)
        rs == IF fresh THEN <<first_byte>> ELSE running_status0
        using_running_status == IF fresh THEN FALSE ELSE Len(running_status0) > 0
        status == IF rs = <<>> THEN first_byte ELSE rs[1]
    IN  midi_dispatch(status, using_running_status, first_byte, buf, c, rs)

\* Mutant: the first byte is stored as the running status whatever it is.
extract_midi_always_store(running_status0, first_byte, buf, c) ==
    LET fresh == msb_set(first_byte)
        rs == <<first_byte>>
        using_running_status == IF fresh THEN FALSE ELSE Len(running_status0) > 0
    IN
    IF ~fresh /\ running_status0 = <<>>
    THEN EvErr("DataByteWithoutRunningStatus", c, rs)
    ELSE midi_dispatch(IF fresh THEN first_byte ELSE running_status0[1],
                       using_running_status, first_byte, buf, c, rs)

extract_midi(running_status0, first_byte, buf, c) ==
    LET fresh == msb_set(first_byte)
        rs == IF fresh THEN <<first_byte>> ELSE running_status0
        using_running_status == IF fresh THEN FALSE ELSE Len(running_status0) > 0
    IN
    IF ~fresh /\ running_status0 = <<>>
    THEN EvErr("DataByteWithoutRunningStatus", c, rs)
    ELSE midi_dispatch(rs[1], using_running_status, first_byte, buf, c, rs)

(***************************************************************************)
(* extract_event                                                           *)
(***************************************************************************)
\* Mutant: only 0xf7 is matched as sysex; 0xf0 falls through to extract_midi.
extract_event_f7_only(rs, buf, c) ==
    LET first == extract_byte(buf, c) IN
    IF ~first.ok THEN EvErr(first.err, first.cur, rs)
    ELSE IF first.v = 247
    THEN LET len == extract_vlq(buf, first.cur) IN
         IF ~len.ok THEN EvErr(len.err, len.cur, rs)
         ELSE IF Len(buf) - len.cur < len.v
         THEN EvErr("SysexLengthExceedsAvailable", len.cur, rs)
         ELSE EvOk(Sysex, len.cur + len.v, rs)
    ELSE IF first.v = 255
    THEN extract_meta(rs, buf, first.cur)
    ELSE extract_midi(rs, first.v, buf, first.cur)

\* Mutant: the sysex length check is `<=`.
extract_event_sysex_le(rs, buf, c) ==
    LET first == extract_byte(buf, c) IN
    IF ~first.ok THEN EvErr(first.err, first.cur, rs)
    ELSE IF first.v \in {240, 247}
    THEN LET len == extract_vlq(buf, first.cur) IN
         IF ~len.ok THEN EvErr(len.err, len.cur, rs)
         ELSE IF Len(buf) - len.cur <= len.v
         THEN EvErr("SysexLengthExceedsAvailable", len.cur, rs)
         ELSE EvOk(Sysex, len.cur + len.v, rs)
    ELSE IF first.v = 255
    THEN extract_meta(rs, buf, first.cur)
    ELSE extract_midi(rs, first.v, buf, first.cur)

extract_event(rs, buf, c) ==
    LET first == extract_byte(buf, c) IN
    IF ~first.ok THEN EvErr(first.err, first.cur, rs)
    ELSE IF first.v \in {240, 247} \* 0xf0 | 0xf7
    THEN LET len == extract_vlq(buf, first.cur) IN
         IF ~len.ok THEN EvErr(len.err, len.cur, rs)
         ELSE IF Len(buf) - len.cur < len.v
         THEN EvErr("SysexLengthExceedsAvailable", len.cur, rs)
         ELSE EvOk(Sysex, len.cur + len.v, rs)
    ELSE IF first.v = 255 \* 0xff
    THEN extract_meta(rs, buf, first.cur)
    ELSE extract_midi(rs, first.v, buf, first.cur)

(***************************************************************************)
(* Inputs                                                                  *)
(***************************************************************************)
(* parse_track and parse as functions of the file                          *)
(***************************************************************************)
\* while cur.len() > 0 { extract_vlq; extract_event; events.push }  Ok(events)
\* <<>> stands for a run that ends in unreachable!().
RECURSIVE run_loop(_, _, _, _)
run_loop(buf, c, rs, evs) ==
    IF Len(buf) - c > 0
    THEN LET d == extract_vlq(buf, c) IN
         IF ~d.ok THEN <<"Err", d.err>>
         ELSE LET e == extract_event(rs, buf, d.cur) IN
              IF ~e.ok
              THEN IF e.err = "unreachable" THEN <<>> ELSE <<"Err", e.err>>
              ELSE run_loop(buf, e.cur, e.rs,
                            Append(evs, [ty |-> e.ty, delta_time |-> d.v]))
    ELSE <<"Ok", evs>>

parse_track(f, p) ==
    LET r == read_track(f, p) IN
    IF ~r.ok THEN <<"Err", r.err>>
    ELSE run_loop(r.buf, 0, <<>>, <<>>)

\* Ok( (parse_header(&mut reader)?, parse_track(&mut reader)?) )
parse(f) ==
    LET h == parse_header(f, 0) IN
    IF ~h.ok THEN <<"Err", h.err>>
    ELSE LET t == parse_track(f, h.pos) IN
         IF t = <<>> THEN <<>>
         ELSE IF t[1] = "Err" THEN t
         ELSE <<"Ok", h.data[1], t[2]>>

(***************************************************************************)
MaxFrags == 2        \* byte groups concatenated into a generated chunk body
MaxVlqLen == 5       \* bytes handed to extract_vlq on its own
MaxTrailing == 1     \* bytes that follow the 14 header bytes
MaxMetaLen == 5      \* bytes that follow the 0xFF of a meta event
MaxMidiLen == 6      \* bytes that follow the first status byte of a MIDI body
MaxSysexLen == 4     \* bytes that follow the 0xF0 / 0xF7 of a sysex event
MaxMetaPayload == 3  \* bytes that follow the type byte of a meta event
MaxTail == 2         \* bytes that follow the first track chunk

SeqsUpTo(S, n) == UNION {[1..k -> S] : k \in 0..n}

u16_to_be_bytes(v) == <<v \div 256, v % 256>>

u32_to_be_bytes(v) ==
    <<v \div 16777216, (v \div 65536) % 256, (v \div 256) % 256, v % 256>>

MThd == <<77, 84, 104, 100>>

MTrk == <<77, 84, 114, 107>>

\* `4D 54 68 64 00 00 00 06 00 01 00 02 00 60`
GoodHeader == MThd \o <<0, 0, 0, 6>> \o <<0, 1, 0, 2, 0, 96>>

GoodHeaderData == parse_header(GoodHeader, 0).data

\* Byte groups: one delta-time followed by the bytes of one event (or, for
\* the groups without a status byte, by data bytes).
Frags ==
    { <<0, 144, 64, 64>>,      \* 00 | 90 40 40   Note On, channel 0
      <<0, 60, 64>>,           \* 00 | 3C 40      two data bytes, no status
      <<0, 60, 64, 0, 62, 64, 0>>, \* 00 | 3C 40 | 00 | 3E 40 | 00  data bytes, no status
      <<0, 129, 60, 0>>,       \* 00 | 81 3C 00   Note Off, channel 1
      <<0, 240, 1, 85>>,       \* 00 | F0 01 55   sysex, one payload byte
      <<0, 255, 47, 0>>,       \* 00 | FF 2F 00   end of track
      <<0, 194, 5>>,           \* 00 | C2 05      program change, channel 2
      <<0, 176, 7, 127>>,      \* 00 | B0 07 7F   control change
      <<129, 0, 248>> }        \* 81 00 | F8      delta 128, system real-time

RECURSIVE Bodies(_)
Bodies(n) ==
    IF n = 0 THEN {<<>>}
    ELSE {<<>>} \cup {f \o b : f \in Frags, b \in Bodies(n - 1)}

\* A track chunk whose length field declares n bytes, followed by `rest`.
TrackChunk(n, rest) == MTrk \o u32_to_be_bytes(n) \o rest

\* The header, then a chunk that declares any length up to one more than the
\* bytes that follow; and files that are broken before the body.
Files ==
    {GoodHeader \o TrackChunk(x[1], x[2]) :
        x \in {y \in (0..(7 * MaxFrags + 1)) \X Bodies(MaxFrags) : y[1] <= Len(y[2]) + 1}}
    \cup {SubSeq(GoodHeader \o MTrk \o <<0, 0, 0, 0>>, 1, k) : k \in 0..21}
    \cup {GoodHeader \o MThd \o <<0, 0, 0, 0>>,
          MTrk \o SubSeq(GoodHeader, 5, 14) \o TrackChunk(0, <<>>),
          MThd \o <<0, 0, 0, 6>> \o <<0, 3, 0, 1, 0, 96>> \o TrackChunk(0, <<>>)}

\* Inputs of extract_vlq on its own.
VlqAlphabet == {0, 1, 127, 128, 129, 255}

VlqInputs == SeqsUpTo(VlqAlphabet, MaxVlqLen)

\* Inputs of parse_header on its own: every prefix of marker, length field,
\* payload and trailing bytes.
HeaderFiles ==
    LET whole == {m \o l \o <<fh, fl, th, tl, dh, dl>> \o t :
                    m \in {MThd, MTrk, <<77, 84, 104, 101>>},
                    l \in {<<0, 0, 0, 6>>, <<0, 0, 0, 5>>, <<0, 0, 1, 6>>, <<6, 0, 0, 0>>},
                    fh \in {0, 1}, fl \in {0, 1, 2, 3},
                    th \in {0, 1}, tl \in {0, 2},
                    dh \in {0, 128}, dl \in {0, 96},
                    t \in SeqsUpTo({0, 77}, MaxTrailing)}
    IN  UNION {{SubSeq(w, 1, k) : k \in 0..Len(w)} : w \in whole}

\* Files with any track count in the header, one whole track chunk, and
\* bytes or a second chunk after it.
TrackCounts == {0, 1, 2, 3, 65535}

Tails ==
    SeqsUpTo({0, 77, 255}, MaxTail)
    \cup {TrackChunk(4, <<0, 144, 64, 64>>), TrackChunk(3, <<0, 60>>)}

TrackFiles ==
    {MThd \o <<0, 0, 0, 6>> \o <<0, 1>> \o u16_to_be_bytes(n) \o <<0, 96>>
          \o TrackChunk(Len(b), b) \o t :
        n \in TrackCounts, b \in Bodies(1), t \in Tails}

\* Chunk bodies that hold a delta-time of 0 and a meta event.
MetaAlphabet == {0, 3, 7, 32, 47, 81, 161}

MetaBodies == {<<0, 255>> \o s : s \in SeqsUpTo(MetaAlphabet, MaxMetaLen)}

\* Chunk bodies that hold a delta-time of 0, a channel or system status byte,
\* and then data bytes and 0xFF bytes: events that reuse the status, meta
\* events between them.
MidiStatuses == {133, 144, 160, 177, 194, 211, 228, 241, 242, 243, 248}

MidiBodies ==
    {<<0, st>> \o s : st \in MidiStatuses, s \in SeqsUpTo({0, 5, 255}, MaxMidiLen)}

\* Chunk bodies that hold a delta-time of 0 and a sysex event.
SysexBodies ==
    {<<0, f>> \o s : f \in {240, 247}, s \in SeqsUpTo({0, 1, 2, 85, 129}, MaxSysexLen)}

\* Chunk bodies that hold a delta-time of 0 and a meta event of any type.
MetaTypeBodies ==
    {<<0, 255, ty>> \o s : ty \in 0..255, s \in SeqsUpTo({0, 1, 129}, MaxMetaPayload)}

(***************************************************************************)
(* parse: the header, then one track chunk                                 *)
(***************************************************************************)
Init ==
    /\ file \in Files
    /\ pos = 0
    /\ pc = "header"
    /\ header = <<>>
    /\ track_buf = <<>>
    /\ cur = 0
    /\ running_status = <<>>
    /\ events = <<>>
    /\ delta_time = 0
    /\ result = <<>>

\* parse_header(&mut reader)?
ParseHeader ==
    /\ pc = "header"
    /\ LET r == parse_header(file, pos) IN
        /\ pos' = r.pos
        /\ header' = r.data
        /\ IF r.ok
           THEN pc' = "track" /\ result' = result
           ELSE pc' = "error" /\ result' = <<"Err", r.err>>
    /\ UNCHANGED <<file, track_buf, cur, running_status, events, delta_time>>

\* parse_track, before the loop
ParseTrack ==
    /\ pc = "track"
    /\ LET r == read_track(file, pos) IN
        /\ pos' = r.pos
        /\ track_buf' = r.buf
        /\ IF r.ok
           THEN pc' = "loop" /\ result' = result
           ELSE pc' = "error" /\ result' = <<"Err", r.err>>
    /\ cur' = 0
    /\ running_status' = <<>>
    /\ events' = <<>>
    /\ UNCHANGED <<file, header, delta_time>>

\* while cur.len() > 0 { ... }  Ok(events)
LoopTest ==
    /\ pc = "loop"
    /\ IF Len(track_buf) - cur > 0
       THEN pc' = "delta" /\ result' = result
       ELSE pc' = "done" /\ result' = <<"Ok", header[1], events>>
    /\ UNCHANGED <<file, pos, header, track_buf, cur, running_status, events, delta_time>>

\* let delta_time = extract_vlq(&mut cur)?;
ExtractDelta ==
    /\ pc = "delta"
    /\ LET r == extract_vlq(track_buf, cur) IN
        /\ cur' = r.cur
        /\ IF r.ok
           THEN pc' = "event" /\ delta_time' = r.v /\ result' = result
           ELSE pc' = "error" /\ delta_time' = delta_time /\ result' = <<"Err", r.err>>
    /\ UNCHANGED <<file, pos, header, track_buf, running_status, events>>

\* Mutant: an event that fails to decode is skipped and the loop goes on.
ExtractEvent_skip ==
    /\ pc = "event"
    /\ LET r == extract_event(running_status, track_buf, cur) IN
        /\ cur' = r.cur
        /\ running_status' = r.rs
        /\ events' = IF r.ok THEN Append(events, [ty |-> r.ty, delta_time |-> delta_time])
                     ELSE events
    /\ pc' = "loop"
    /\ UNCHANGED <<file, pos, header, track_buf, delta_time, result>>

\* let ty = extract_event(&mut running_status, &mut cur)?; events.push(..)
ExtractEvent ==
    /\ pc = "event"
    /\ LET r == extract_event(running_status, track_buf, cur) IN
        /\ cur' = r.cur
        /\ running_status' = r.rs
        /\ IF r.ok
           THEN /\ pc' = "loop"
                /\ events' = Append(events, [ty |-> r.ty, delta_time |-> delta_time])
                /\ result' = result
           ELSE /\ events' = events
                /\ IF r.err = "unreachable"
                   THEN pc' = "panic" /\ result' = result
                   ELSE pc' = "error" /\ result' = <<"Err", r.err>>
    /\ UNCHANGED <<file, pos, header, track_buf, delta_time>>

Next == ParseHeader \/ ParseTrack \/ LoopTest \/ ExtractDelta \/ ExtractEvent

Spec == Init /\ [][Next]_vars

(***************************************************************************)
(* parse_header on its own                                                 *)
(***************************************************************************)
InitHeader ==
    /\ file \in HeaderFiles
    /\ pos = 0
    /\ pc = "header"
    /\ header = <<>>
    /\ track_buf = <<>>
    /\ cur = 0
    /\ running_status = <<>>
    /\ events = <<>>
    /\ delta_time = 0
    /\ result = <<>>

NextHeader == ParseHeader

SpecHeader == InitHeader /\ [][NextHeader]_vars

(***************************************************************************)
(* The states of parse_track inside the loop, for a given chunk body       *)
(***************************************************************************)
InLoop(body, c, at) ==
    /\ file = GoodHeader \o TrackChunk(Len(body), body)
    /\ pos = Len(file)
    /\ pc = at
    /\ header = GoodHeaderData
    /\ track_buf = body
    /\ cur = c
    /\ running_status = <<>>
    /\ events = <<>>
    /\ delta_time = 0
    /\ result = <<>>

(***************************************************************************)
(* extract_vlq on its own: the call that reads a delta-time                *)
(***************************************************************************)
InitVlq == \E b \in VlqInputs : InLoop(b, 0, "delta")

NextVlq == ExtractDelta

SpecVlq == InitVlq /\ [][NextVlq]_vars

(***************************************************************************)
(* One meta event: the body is `00 FF ...` and the delta-time has been read*)
(***************************************************************************)
InitMeta == \E b \in MetaBodies : InLoop(b, 1, "event")

NextMeta == ExtractEvent

SpecMeta == InitMeta /\ [][NextMeta]_vars

(***************************************************************************)
(* The loop of parse_track on a body that starts with a MIDI status byte   *)
(***************************************************************************)
InitMidi == \E b \in MidiBodies : InLoop(b, 0, "loop")

NextMidi == LoopTest \/ ExtractDelta \/ ExtractEvent

SpecMidi == InitMidi /\ [][NextMidi]_vars

(***************************************************************************)
(* One sysex event: the body is `00 F0 ...` or `00 F7 ...`                 *)
(***************************************************************************)
InitSysex == \E b \in SysexBodies : InLoop(b, 1, "event")

NextSysex == ExtractEvent

SpecSysex == InitSysex /\ [][NextSysex]_vars

(***************************************************************************)
(* One meta event of any of the 256 types                                  *)
(***************************************************************************)
InitMetaType == \E b \in MetaTypeBodies : InLoop(b, 1, "event")

NextMetaType == ExtractEvent

SpecMetaType == InitMetaType /\ [][NextMetaType]_vars

(***************************************************************************)
(* parse on files that hold one whole track chunk and bytes after it       *)
(***************************************************************************)
InitTracks ==
    /\ file \in TrackFiles
    /\ pos = 0
    /\ pc = "header"
    /\ header = <<>>
    /\ track_buf = <<>>
    /\ cur = 0
    /\ running_status = <<>>
    /\ events = <<>>
    /\ delta_time = 0
    /\ result = <<>>

NextTracks == ParseHeader \/ ParseTrack \/ LoopTest \/ ExtractDelta \/ ExtractEvent

SpecTracks == InitTracks /\ [][NextTracks]_vars

(***************************************************************************)
(* parse runs to its end: a sequential program takes its next step         *)
(***************************************************************************)
FairSpec == Spec /\ WF_vars(Next)

(***************************************************************************)
(* Helpers of the properties                                               *)
(***************************************************************************)
Err(e) == <<"Err", e>>

Last(s) == s[Len(s)]

\* The standard VLQ encoding: 7-bit groups, most significant first, the
\* high bit set on every byte but the last.
RECURSIVE vlq_continuation(_)
vlq_continuation(v) ==
    IF v < 128 THEN <<128 + v>> ELSE vlq_continuation(v \div 128) \o <<128 + (v % 128)>>

vlq_encode(v) ==
    IF v < 128 THEN <<v>> ELSE vlq_continuation(v \div 128) \o <<v % 128>>

\* The values in [0, 0x0FFFFFFF] whose 7-bit groups are 0, 1 or 0x7F.
VlqValues ==
    {((a * 128 + b) * 128 + c) * 128 + d : a \in {0, 1, 127}, b \in {0, 1, 127},
                                           c \in {0, 1, 127}, d \in {0, 1, 127}}

IsPrefix(p, s) == Len(p) <= Len(s) /\ SubSeq(s, 1, Len(p)) = p

FormatCode(format) ==
    CASE format = "SingleTrack" -> 0
      [] format = "MultipleTrack" -> 1
      [] format = "MultipleSong" -> 2

\* The 6 payload bytes that encode a HeaderData.
header_to_be_bytes(h) ==
    u16_to_be_bytes(FormatCode(h.format)) \o u16_to_be_bytes(h.num_tracks)
        \o u16_to_be_bytes(h.division)

(***************************************************************************)
(* C1  An event that begins with a data byte under a Note On / Note Off    *)
(* running status takes that byte as its note and exactly one more byte as *)
(* its velocity.  The code reads two more bytes: the first byte is lost.   *)
(***************************************************************************)
C1_RunningStatusNote ==
    [][ ( /\ pc = "event"
          /\ running_status # <<>>
          /\ msb(running_status[1]) \in {NOTE_OFF_STATUS, NOTE_ON_STATUS}
          /\ Len(track_buf) - cur >= 2
          /\ ~msb_set(track_buf[cur + 1]) )
        => ( /\ pc' = "loop"
             /\ cur' = cur + 2
             /\ Last(events').ty.kind = "Midi"
             /\ Last(events').ty.ev.tag =
                   (IF msb(running_status[1]) = NOTE_ON_STATUS THEN "NoteOn" ELSE "NoteOff")
             /\ Last(events').ty.ev.note = track_buf[cur + 1]
             /\ Last(events').ty.ev.velocity = track_buf[cur + 2] ) ]_vars

(***************************************************************************)
(* C2  The channel of every decoded NoteOn / NoteOff is the low nibble of  *)
(* the effective status byte.  The code takes the low nibble of the first  *)
(* byte of the event, which is a data byte under running status.           *)
(***************************************************************************)
C2_ChannelFromStatus ==
    [][ ( /\ pc = "event"
          /\ pc' = "loop"
          /\ Last(events').ty.kind = "Midi"
          /\ Last(events').ty.ev.tag \in {"NoteOn", "NoteOff"} )
        => Last(events').ty.ev.channel = lsb(running_status'[1]) ]_vars

(***************************************************************************)
(* C3  extract_vlq on the standard encoding of v, followed by any bytes,   *)
(* returns v and leaves the cursor right after the encoding.               *)
(***************************************************************************)
C3_VlqRoundTrip ==
    pc # "delta" =>
        \A v \in VlqValues :
            IsPrefix(vlq_encode(v), track_buf) =>
                /\ pc = "event"
                /\ delta_time = v
                /\ cur = Len(vlq_encode(v))

C3_Witness ==
    /\ pc = "event"
    /\ track_buf = <<255, 255, 255, 127, 129>>
    /\ delta_time = 268435455
    /\ cur = 4

(***************************************************************************)
(* C4  extract_vlq consumes at most 4 bytes; four bytes with the high bit  *)
(* set give VlqTooLong; an input that ends before a byte with the high bit *)
(* clear, within the first 4 bytes, gives UnexpectedEndOfStream.           *)
(***************************************************************************)
C4_VlqAtMostFour ==
    pc # "delta" =>
        /\ cur <= 4
        /\ (Len(track_buf) >= 4 /\ \A i \in 1..4 : msb_set(track_buf[i]))
              => (pc = "error" /\ result = Err("VlqTooLong"))
        /\ (Len(track_buf) < 4 /\ \A i \in 1..Len(track_buf) : msb_set(track_buf[i]))
              => (pc = "error" /\ result = Err("UnexpectedEndOfStream"))

C4_Witness ==
    /\ pc = "error"
    /\ result = Err("VlqTooLong")
    /\ Len(track_buf) = 5
    /\ cur = 4

(***************************************************************************)
(* C5  On `MThd`, length 6, format in {0,1,2}, track_count, division,      *)
(* parse_header succeeds, consumes 14 bytes and returns fields whose       *)
(* big-endian encoding is the 6 payload bytes.                             *)
(***************************************************************************)
ValidHeader(f) ==
    /\ Len(f) >= 14
    /\ SubSeq(f, 1, 4) = MThd
    /\ SubSeq(f, 5, 8) = <<0, 0, 0, 6>>
    /\ f[9] = 0
    /\ f[10] \in {0, 1, 2}

C5_HeaderRoundTrip ==
    (pc # "header" /\ ValidHeader(file)) =>
        /\ pc = "track"
        /\ result = <<>>
        /\ pos = 14
        /\ Len(header) = 1
        /\ header_to_be_bytes(header[1]) = SubSeq(file, 9, 14)
        /\ IsPrefix(GoodHeader, file) =>
              header[1] = [format |-> "MultipleTrack", num_tracks |-> 2, division |-> 96]

C5_Witness ==
    /\ pc = "track"
    /\ IsPrefix(GoodHeader, file)
    /\ header = <<[format |-> "MultipleTrack", num_tracks |-> 2, division |-> 96]>>
    /\ pos = 14

(***************************************************************************)
(* C6  parse_header validates marker, then length, then format, failing    *)
(* with UnexpectedEndOfStream where the stream is shorter than the bytes   *)
(* being read; a failure returns no HeaderData.                            *)
(***************************************************************************)
C6_HeaderErrors ==
    pc # "header" =>
        LET n == Len(file)
            markerOk == n >= 4 /\ SubSeq(file, 1, 4) = MThd
            lengthOk == n >= 8 /\ SubSeq(file, 5, 8) = <<0, 0, 0, 6>>
            formatOk == n >= 14 /\ file[9] = 0 /\ file[10] \in {0, 1, 2}
        IN  /\ pc = "error" => (header = <<>> /\ Len(result) = 2 /\ result[1] = "Err")
            /\ n < 4 => result = Err("UnexpectedEndOfStream")
            /\ (n >= 4 /\ ~markerOk) => result = Err("MalformedHeaderMarker")
            /\ (markerOk /\ n < 8) => result = Err("UnexpectedEndOfStream")
            /\ (markerOk /\ n >= 8 /\ ~lengthOk) => result = Err("UnexpectedHeaderSize")
            /\ (markerOk /\ lengthOk /\ n < 14) => result = Err("UnexpectedEndOfStream")
            /\ (markerOk /\ lengthOk /\ n >= 14 /\ ~formatOk) => result = Err("InvalidFileFormat")
            /\ (markerOk /\ lengthOk /\ formatOk) => pc = "track"

\* The marker is wrong and so is the length field: the marker decides.
C6_Witness ==
    /\ pc = "error"
    /\ result = Err("MalformedHeaderMarker")
    /\ Len(file) >= 14
    /\ SubSeq(file, 5, 8) # <<0, 0, 0, 6>>
    /\ file[10] = 3

(***************************************************************************)
(* C7  A meta event of type 0x2F.  As claimed: a declared length other     *)
(* than 0 fails with InvalidEndOfTrackLength whatever bytes remain.        *)
(* As amended: it does so when the declared length fits in the remaining   *)
(* bytes, and fails with MetaLengthExceedsAvailable when it does not;      *)
(* with length 0 the event is EndOfTrack and nothing follows the length.   *)
(***************************************************************************)
IsMetaOfType(ty) == Len(track_buf) >= 3 /\ track_buf[2] = 255 /\ track_buf[3] = ty

\* The declared length of the meta event of the body, read after the type.
DeclaredLen == extract_vlq(track_buf, 3)

C7_EndOfTrackAnyRemaining ==
    (pc # "event" /\ IsMetaOfType(47) /\ DeclaredLen.ok) =>
        /\ DeclaredLen.v # 0 => (pc = "error" /\ result = Err("InvalidEndOfTrackLength"))
        /\ DeclaredLen.v = 0 =>
              /\ pc = "loop"
              /\ events = <<[ty |-> Meta(EndOfTrack), delta_time |-> 0]>>
              /\ cur = DeclaredLen.cur

C7_EndOfTrack ==
    (pc # "event" /\ IsMetaOfType(47) /\ DeclaredLen.ok) =>
        LET remaining == Len(track_buf) - DeclaredLen.cur IN
        /\ (DeclaredLen.v # 0 /\ DeclaredLen.v <= remaining)
              => (pc = "error" /\ result = Err("InvalidEndOfTrackLength"))
        /\ DeclaredLen.v > remaining
              => (pc = "error" /\ result = Err("MetaLengthExceedsAvailable"))
        /\ DeclaredLen.v = 0 =>
              /\ pc = "loop"
              /\ events = <<[ty |-> Meta(EndOfTrack), delta_time |-> 0]>>
              /\ cur = DeclaredLen.cur

\* Declared length 3 with exactly 3 bytes remaining.
C7_Witness ==
    /\ pc = "error"
    /\ result = Err("InvalidEndOfTrackLength")
    /\ IsMetaOfType(47)
    /\ DeclaredLen.v = 3
    /\ Len(track_buf) = DeclaredLen.cur + 3

(***************************************************************************)
(* C8  A meta event of type 0x51 with declared length 3 and 3 bytes        *)
(* remaining is SetTempo(b0*65536 + b1*256 + b2) and leaves the cursor 3   *)
(* bytes past the length; a declared length other than 3 that fits fails   *)
(* with InvalidSetTempoLength.                                             *)
(***************************************************************************)
C8_SetTempo ==
    (pc # "event" /\ IsMetaOfType(81) /\ DeclaredLen.ok) =>
        LET at == DeclaredLen.cur
            remaining == Len(track_buf) - at
        IN  /\ (DeclaredLen.v = 3 /\ remaining >= 3) =>
                  /\ pc = "loop"
                  /\ events = <<[ty |-> Meta(SetTempo(track_buf[at + 1] * 65536
                                     + track_buf[at + 2] * 256 + track_buf[at + 3])),
                                 delta_time |-> 0]>>
                  /\ cur = at + 3
            /\ (DeclaredLen.v # 3 /\ DeclaredLen.v <= remaining)
                  => (pc = "error" /\ result = Err("InvalidSetTempoLength"))
            /\ track_buf = <<0, 255, 81, 3, 7, 161, 32>>
                  => events[1].ty.ev.tempo = 500000

C8_Witness ==
    /\ pc = "loop"
    /\ track_buf = <<0, 255, 81, 3, 7, 161, 32>>
    /\ events = <<[ty |-> Meta(SetTempo(500000)), delta_time |-> 0]>>
    /\ cur = 7

(***************************************************************************)
(* C9  An event that begins with a data byte while no running status is    *)
(* stored fails with DataByteWithoutRunningStatus, also after sysex and    *)
(* meta events; parse returns the error and no events.                     *)
(***************************************************************************)
C9_DataByteWithoutRunningStatus ==
    [][ ( /\ pc = "event"
          /\ running_status = <<>>
          /\ cur < Len(track_buf)
          /\ ~msb_set(track_buf[cur + 1]) )
        => ( /\ pc' = "error"
             /\ result' = Err("DataByteWithoutRunningStatus") ) ]_vars

\* The data byte follows a sysex event or a meta event.
C9_Witness ==
    /\ pc = "error"
    /\ result = Err("DataByteWithoutRunningStatus")
    /\ running_status = <<>>
    /\ Len(events) = 1
    /\ events[1].ty.kind \in {"Sysex", "Meta"}

(***************************************************************************)
(* C10  A track chunk that declares more bytes than the stream holds after *)
(* the length field fails with UnexpectedEndOfStream, and no delta-time or *)
(* event is decoded.                                                       *)
(***************************************************************************)
DeclaresTooMuch(f) ==
    /\ Len(f) >= 22
    /\ SubSeq(f, 15, 18) = MTrk
    /\ u32_from_be_bytes(SubSeq(f, 19, 22)) > Len(f) - 22

C10_TrackLengthTooLarge ==
    (pc \notin {"header", "track"} /\ header # <<>> /\ DeclaresTooMuch(file)) =>
        /\ pc = "error"
        /\ result = Err("UnexpectedEndOfStream")
        /\ events = <<>>
        /\ cur = 0
        /\ delta_time = 0

\* Body bytes are available, one fewer than declared.
C10_Witness ==
    /\ pc = "error"
    /\ header # <<>>
    /\ DeclaresTooMuch(file)
    /\ Len(file) > 22
    /\ result = Err("UnexpectedEndOfStream")

(***************************************************************************)
(* C11  The parse is all-or-nothing: the first error of parse_header, of   *)
(* the chunk framing, of extract_vlq or of extract_event ends the parse    *)
(* and is what parse returns, with no HeaderData and no events; no step    *)
(* runs once parse has returned.                                           *)
(***************************************************************************)
C11_AllOrNothing ==
    [][ /\ pc \notin {"error", "done", "panic"}
        /\ result = <<>>
        /\ (pc = "header" /\ ~parse_header(file, pos).ok)
              => (pc' = "error" /\ result' = Err(parse_header(file, pos).err))
        /\ (pc = "track" /\ ~read_track(file, pos).ok)
              => (pc' = "error" /\ result' = Err(read_track(file, pos).err))
        /\ (pc = "delta" /\ ~extract_vlq(track_buf, cur).ok)
              => (pc' = "error" /\ result' = Err(extract_vlq(track_buf, cur).err))
        /\ (pc = "event" /\ ~extract_event(running_status, track_buf, cur).ok)
              => (pc' = "error"
                  /\ result' = Err(extract_event(running_status, track_buf, cur).err))
        /\ result' # <<>> => (pc' = "error" <=> result'[1] = "Err")
        /\ pc' = "error" => Len(result') = 2 ]_vars

\* An event was decoded and pushed before the error: it is not returned.
C11_Witness ==
    /\ pc = "error"
    /\ Len(events) = 1
    /\ header # <<>>
    /\ result = Err("DataByteWithoutRunningStatus")

(***************************************************************************)
(* The event about to be decoded in a state with pc = "event"              *)
(***************************************************************************)
HasFirstByte == cur < Len(track_buf)

FirstByte == track_buf[cur + 1]

\* The first byte is a status byte of its own.
Fresh == msb_set(FirstByte)

\* A MIDI event (not sysex, not meta) that has a status to decode with.
IsMidiEvent ==
    /\ HasFirstByte
    /\ FirstByte \notin {240, 247, 255}
    /\ (Fresh \/ running_status # <<>>)

EffectiveStatus == IF Fresh THEN FirstByte ELSE running_status[1]

(***************************************************************************)
(* C12  A channel-voice event classified Unimplemented leaves the cursor   *)
(* at the next event boundary: high nibble 0b1100 / 0b1101 carries 1 data  *)
(* byte, 0b1010 / 0b1011 / 0b1110 carry 2, and a first byte that was a     *)
(* data byte counts as the first of them.                                  *)
(***************************************************************************)
C12_UnimplementedChannelVoice ==
    [][ (pc = "event" /\ IsMidiEvent /\ msb(EffectiveStatus) \in 10..14) =>
          LET ndata == IF msb(EffectiveStatus) \in {12, 13} THEN 1 ELSE 2
              need == IF Fresh THEN 1 + ndata ELSE ndata
          IN  IF Len(track_buf) - cur >= need
              THEN /\ pc' = "loop"
                   /\ cur' = cur + need
                   /\ Last(events').ty = Midi(Unimplemented)
              ELSE /\ pc' = "error"
                   /\ result' = Err("UnexpectedEndOfStream") ]_vars

\* `00 B1 d d`, then `00 d d` under the running status 0xB1.
C12_Witness ==
    /\ pc = "loop"
    /\ running_status = <<177>>
    /\ cur = 7
    /\ Len(events) = 2
    /\ events[2].ty = Midi(Unimplemented)

(***************************************************************************)
(* C13  parse_track does not succeed on a body that ends inside a          *)
(* (delta-time, event) pair: a body that runs out after a delta-time,      *)
(* inside a VLQ, before the data bytes of a MIDI event or before the       *)
(* declared payload of a sysex or meta event gives an error; success       *)
(* leaves the cursor at the end of the body, and needs no EndOfTrack.      *)
(***************************************************************************)
\* The bytes from position c on end before a VLQ does.
VlqIncompleteAt(buf, c) ==
    /\ Len(buf) - c < 4
    /\ \A i \in (c + 1)..Len(buf) : msb_set(buf[i])

\* The declared length read at position c is larger than what follows it.
PayloadCutAt(buf, c) ==
    /\ extract_vlq(buf, c).ok
    /\ extract_vlq(buf, c).v > Len(buf) - extract_vlq(buf, c).cur

\* Data bytes that follow a status byte.
DataBytes(status) ==
    IF msb(status) = 15
    THEN (IF lsb(status) = 2 THEN 2 ELSE IF lsb(status) = 3 THEN 1 ELSE 0)
    ELSE IF msb(status) \in {12, 13} THEN 1 ELSE 2

\* Bytes a MIDI event takes from its first byte on: a status byte and its
\* data bytes; under running status the data bytes (a system status takes
\* its data bytes after the first byte in both cases).
MidiEventBytes ==
    IF Fresh \/ msb(EffectiveStatus) = 15
    THEN 1 + DataBytes(EffectiveStatus)
    ELSE DataBytes(EffectiveStatus)

EventIncomplete ==
    \/ ~HasFirstByte
    \/ /\ HasFirstByte
       /\ FirstByte \in {240, 247}
       /\ (VlqIncompleteAt(track_buf, cur + 1) \/ PayloadCutAt(track_buf, cur + 1))
    \/ /\ HasFirstByte
       /\ FirstByte = 255
       /\ \/ cur + 1 = Len(track_buf)
          \/ VlqIncompleteAt(track_buf, cur + 2)
          \/ PayloadCutAt(track_buf, cur + 2)
    \/ /\ IsMidiEvent
       /\ Len(track_buf) - cur < MidiEventBytes

C14_RunningStatusFrame ==
    [][ /\ pc = "track" => running_status' = <<>>
        /\ pc \notin {"track", "event"} => running_status' = running_status
        /\ pc = "event" =>
              IF HasFirstByte /\ Fresh /\ FirstByte \notin {240, 247, 255}
              THEN running_status' = <<FirstByte>>
              ELSE running_status' = running_status
        /\ (pc # "track" /\ running_status # <<>>) => running_status' # <<>> ]_vars

\* The status 0x90 is still stored after a sysex or a meta event.
C14_Witness ==
    /\ pc = "loop"
    /\ running_status = <<144>>
    /\ Len(events) = 2
    /\ events[2].ty.kind \in {"Sysex", "Meta"}

(***************************************************************************)
(* C15  The stored running status is never 0xF0, 0xF7 or 0xFF, so the      *)
(* system-message branch never sees the status 0xF0 and the unreachable!   *)
(* arm is never executed.                                                  *)
(***************************************************************************)
C15_NoSysexStatus ==
    /\ pc # "panic"
    /\ running_status # <<>> =>
          /\ msb_set(running_status[1])
          /\ running_status[1] \notin {240, 247, 255}

\* A sysex event 0xF0 was decoded, then a system message went through the
\* system-message branch.
C15_Witness ==
    /\ pc = "loop"
    /\ Len(events) = 2
    /\ events[1].ty = Sysex
    /\ track_buf[2] = 240
    /\ running_status = <<248>>

(***************************************************************************)
(* C16  An event whose effective status has high nibble 0b1111 consumes,   *)
(* after its first byte, 2 bytes for low nibble 0b0010, 1 byte for 0b0011  *)
(* and none otherwise, and is Midi(Unimplemented), whether the status is   *)
(* fresh or reused by an event that begins with a data byte.               *)
(***************************************************************************)
C16_SystemMessage ==
    [][ (pc = "event" /\ IsMidiEvent /\ msb(EffectiveStatus) = SYSTEM_MESSAGE_STATUS) =>
          LET after == IF lsb(EffectiveStatus) = 2 THEN 2
                       ELSE IF lsb(EffectiveStatus) = 3 THEN 1 ELSE 0
          IN  IF Len(track_buf) - (cur + 1) >= after
              THEN /\ pc' = "loop"
                   /\ cur' = cur + 1 + after
                   /\ Last(events').ty = Midi(Unimplemented)
              ELSE /\ pc' = "error"
                   /\ result' = Err("UnexpectedEndOfStream") ]_vars

\* `00 F2 d d`, then `00 d d d` under the running status 0xF2.
C16_Witness ==
    /\ pc = "loop"
    /\ running_status = <<242>>
    /\ cur = 8
    /\ Len(events) = 2
    /\ events[2].ty = Midi(Unimplemented)

(***************************************************************************)
(* C17  An event that begins with 0xF0 or 0xF7 reads a VLQ length n; with  *)
(* fewer than n bytes left it fails with SysexLengthExceedsAvailable,      *)
(* otherwise the cursor moves by n bytes and the event is Sysex, with no   *)
(* payload kept.                                                           *)
(***************************************************************************)
C17_Sysex ==
    (pc # "event" /\ track_buf[2] \in {240, 247}) =>
        LET n == extract_vlq(track_buf, 2) IN
        IF ~n.ok THEN pc = "error" /\ result = Err(n.err)
        ELSE IF Len(track_buf) - n.cur < n.v
        THEN pc = "error" /\ result = Err("SysexLengthExceedsAvailable")
        ELSE /\ pc = "loop"
             /\ cur = n.cur + n.v
             /\ events = <<[ty |-> [kind |-> "Sysex"], delta_time |-> 0]>>

\* `00 F7 02 p p`: two payload bytes skipped, the cursor at the end.
C17_Witness ==
    /\ pc = "loop"
    /\ Len(track_buf) = 5
    /\ track_buf[2] = 247
    /\ track_buf[3] = 2
    /\ cur = 5
    /\ events = <<[ty |-> Sysex, delta_time |-> 0]>>

(***************************************************************************)
(* C18  In a meta event the remaining bytes are checked before the type:   *)
(* a declared length larger than what remains gives                        *)
(* MetaLengthExceedsAvailable for every type; otherwise the types          *)
(* 0x01..0x07, 0x54, 0x58, 0x59, 0x7F give Meta(Unimplemented) with the    *)
(* cursor moved by the declared length, and a type outside those and 0x2F, *)
(* 0x51 gives InvalidMetaEventTag.                                         *)
(***************************************************************************)
C18_MetaDispatch ==
    (pc # "event" /\ DeclaredLen.ok) =>
        LET ty == track_buf[3]
            at == DeclaredLen.cur
            remaining == Len(track_buf) - at
        IN  /\ DeclaredLen.v > remaining
                  => (pc = "error" /\ result = Err("MetaLengthExceedsAvailable"))
            /\ (DeclaredLen.v <= remaining /\ ty \in (1..7) \cup {84, 88, 89, 127}) =>
                  /\ pc = "loop"
                  /\ events = <<[ty |-> Meta(Unimplemented), delta_time |-> 0]>>
                  /\ cur = at + DeclaredLen.v
            /\ (DeclaredLen.v <= remaining /\ ty \notin (1..7) \cup {47, 81, 84, 88, 89, 127})
                  => (pc = "error" /\ result = Err("InvalidMetaEventTag"))

\* An unknown type 0x00 that declares more bytes than remain.
C18_Witness ==
    /\ pc = "error"
    /\ track_buf = <<0, 255, 0, 1>>
    /\ result = Err("MetaLengthExceedsAvailable")

(***************************************************************************)
(* C19  The loop of parse_track terminates: a delta-time and an event each *)
(* consume at least one byte, the cursor moves neither backwards nor past  *)
(* the end of the body, each decoded pair is appended in stream order, so  *)
(* the returned sequence has at most half as many entries as the body has  *)
(* bytes; and the parse reaches its end.                                   *)
(***************************************************************************)
C19_LoopTerminates ==
    /\ [][ /\ cur' >= cur
           /\ cur' <= Len(track_buf')
           /\ (pc = "delta" /\ pc' = "event") => cur' >= cur + 1
           /\ (pc = "event" /\ pc' = "loop") =>
                 /\ cur' >= cur + 1
                 /\ Len(events') = Len(events) + 1
                 /\ SubSeq(events', 1, Len(events)) = events
                 /\ Last(events').delta_time = delta_time
           /\ pc # "event" => events' = events
           /\ 2 * Len(events') <= cur'
           /\ pc' = "done" =>
                 /\ result'[3] = events
                 /\ 2 * Len(result'[3]) <= Len(track_buf) ]_vars
    /\ <>(pc \in {"done", "error"})

\* Two pairs were decoded and returned.
C19_Witness ==
    /\ pc = "done"
    /\ Len(result[3]) = 2
    /\ cur = Len(track_buf)

(***************************************************************************)
(* C20  parse decodes the header and one MTrk chunk whatever track count   *)
(* the header declares: nothing is read after the end of the first chunk,  *)
(* the decoded body is the declared body, the result is the result of the  *)
(* file cut at the end of the first chunk, and a chunk that decodes gives  *)
(* a successful parse that reports the declared track count.               *)
(***************************************************************************)
FirstChunkEnd == 22 + u32_from_be_bytes(SubSeq(file, 19, 22))

FirstChunkOnly == SubSeq(file, 1, FirstChunkEnd)

C20_OneTrackChunk ==
    /\ pos <= FirstChunkEnd
    /\ pc \in {"loop", "delta", "event", "done"} =>
          /\ pos = FirstChunkEnd
          /\ track_buf = SubSeq(file, 23, FirstChunkEnd)
    /\ pc \in {"done", "error", "panic"} => result = parse(FirstChunkOnly)
    /\ (pc \in {"done", "error", "panic"}
           /\ run_loop(SubSeq(file, 23, FirstChunkEnd), 0, <<>>, <<>>) # <<>>
           /\ run_loop(SubSeq(file, 23, FirstChunkEnd), 0, <<>>, <<>>)[1] = "Ok") =>
          /\ pc = "done"
          /\ result[1] = "Ok"
          /\ result[2].num_tracks = u16_from_be_bytes(SubSeq(file, 11, 12))
          /\ result[3] = run_loop(SubSeq(file, 23, FirstChunkEnd), 0, <<>>, <<>>)[2]

\* A file that declares 3 tracks and holds a second chunk after the first
\* parsed successfully to the events of the first chunk.
C20_Witness ==
    /\ pc = "done"
    /\ result[2].num_tracks = 3
    /\ Len(file) >= FirstChunkEnd + 4
    /\ SubSeq(file, FirstChunkEnd + 1, FirstChunkEnd + 4) = MTrk
    /\ Len(result[3]) = 1

====
